---- MODULE Spec2Model ----
(***************************************************************************)
(* ArchEval: the SLM-vs-LLM assessment application.                        *)
(*                                                                         *)
(* The model follows src/App.tsx (App, AssessmentPage, LoginPage),         *)
(* src/types.ts (the question tables and the two score constants),         *)
(* src/services/gemini.ts (the narrative generator and the scenario        *)
(* generator), src/services/database.ts (the submission store) and         *)
(* src/components/Navbar.tsx (navigation).                                 *)
(***************************************************************************)
EXTENDS Integers, Sequences, FiniteSets, TLC

(***************************************************************************)
(* State                                                                   *)
(***************************************************************************)
VARIABLES
  view,               \* App: useState<ViewState>
  submissions,        \* App: useState<Submission[]>
  currentSubmission,  \* App: useState<Submission | null>
  isAdmin,            \* App: useState(false)
  isLoading,          \* App: useState(true)
  formData,           \* AssessmentPage: useState<Partial<FormData>>
  isGenerating,       \* AssessmentPage: a scenario request is in flight
  pending,            \* handleAssessmentSubmit calls awaiting generateEvaluation
  env,                \* build-time configuration: API key, store credentials
  table,              \* the rows of the store's submissions table
  clock,              \* the wall clock read by new Date()
  submits,            \* submits accepted so far
  edits,              \* handleChange calls so far
  alerts,             \* alert() dialogs AssessmentPage.handleSubmit has shown
  loginError,         \* LoginPage: useState(false), the error flag
  password            \* LoginPage: useState(''), the password typed so far

vars ==
  <<view, submissions, currentSubmission, isAdmin, isLoading, formData,
    isGenerating, pending, env, table, clock, submits, edits, alerts,
    loginError, password>>

(***************************************************************************)
(* Bounds of the model                                                     *)
(***************************************************************************)
\* submits accepted by handleAssessmentSubmit in one session
MaxSubmits == 2
\* handleChange calls in one session
MaxEdits == 3
\* rejected submits (alert dialogs) in one session
MaxAlerts == 1

(***************************************************************************)
(* src/types.ts: enums, question tables, constants                         *)
(***************************************************************************)
ViewState == {"ASSESSMENT", "RESULT", "RULES", "LOGIN", "ADMIN"}

SLM == "Small Language Model (SLM)"

LLM == "Large Language Model (LLM)"

ModelChoice == {SLM, LLM}

GATEKEEPER_QUESTIONS ==
  << [id |-> "g1_edge", forceDecision |-> SLM,
      hardBlockerText |-> "On-device or edge deployment requirement"],
     [id |-> "g2_offline", forceDecision |-> SLM,
      hardBlockerText |-> "Offline or limited connectivity requirement"],
     [id |-> "g3_dataResidency", forceDecision |-> SLM,
      hardBlockerText |-> "Internal-only data and inference requirement"],
     [id |-> "g4_regulatory", forceDecision |-> SLM,
      hardBlockerText |-> "Regulatory mandate for model control"],
     [id |-> "g6_infraRefusal", forceDecision |-> LLM,
      hardBlockerText |-> "Organization refuses infrastructure ownership"],
     [id |-> "g7_timeToMarket", forceDecision |-> LLM,
      hardBlockerText |-> "Time-to-market constraint favors managed LLMs"] >>

SCORED_QUESTIONS ==
  << [id |-> "s1_latency",         weight |-> 5, reverse |-> FALSE],
     [id |-> "s2_volume",          weight |-> 5, reverse |-> FALSE],
     [id |-> "s3_cost",            weight |-> 4, reverse |-> FALSE],
     [id |-> "s4_longevity",       weight |-> 4, reverse |-> FALSE],
     [id |-> "s5_narrowness",      weight |-> 3, reverse |-> FALSE],
     [id |-> "s6_domain",          weight |-> 3, reverse |-> FALSE],
     [id |-> "s7_determinism",     weight |-> 3, reverse |-> FALSE],
     [id |-> "s8_explainability",  weight |-> 3, reverse |-> FALSE],
     [id |-> "s9_readiness",       weight |-> 4, reverse |-> FALSE],
     [id |-> "s10_maintenance",    weight |-> 3, reverse |-> FALSE],
     [id |-> "s11_investment",     weight |-> 4, reverse |-> FALSE],
     [id |-> "s12_breadth",        weight |-> 4, reverse |-> TRUE],
     [id |-> "s13_experimentation", weight |-> 3, reverse |-> TRUE],
     [id |-> "s14_lowVolume",      weight |-> 4, reverse |-> TRUE] >>

MAX_POSSIBLE_SCORE == 260

\* the midpoint of the 280 maximum that the narrative prompt still quotes
SCORING_THRESHOLD_Stale == 280 \div 2

SCORING_THRESHOLD == 130

\* the three values of FormData.g5_externalApi
ExternalApiChoice == {"not_acceptable", "risk_mitigation", "fully_acceptable"}

\* the keys of FormData, by kind
TextFields ==
  {"userName", "email", "companyName", "projectName", "projectDescription"}

GateIds == {GATEKEEPER_QUESTIONS[i].id : i \in DOMAIN GATEKEEPER_QUESTIONS}

ScoredIds == {SCORED_QUESTIONS[i].id : i \in DOMAIN SCORED_QUESTIONS}

\* the value of an optional field that was never assigned (JavaScript undefined)
Undefined == "undefined"

(***************************************************************************)
(* src/App.tsx handleAssessmentSubmit, lines 76-128: the decision engine   *)
(***************************************************************************)
\* the chain with the SLM forcers tested before the LLM forcers
GatekeeperLogic_SlmFirst(data) ==
  IF data["g1_edge"] THEN
    [decision |-> SLM,
     hardBlocker |-> "On-device or edge deployment requirement"]
  ELSE IF data["g2_offline"] THEN
    [decision |-> SLM,
     hardBlocker |-> "Offline or limited connectivity requirement"]
  ELSE IF data["g3_dataResidency"] THEN
    [decision |-> SLM,
     hardBlocker |-> "Internal-only data and inference requirement"]
  ELSE IF data["g4_regulatory"] THEN
    [decision |-> SLM,
     hardBlocker |-> "Regulatory mandate for model control"]
  ELSE IF data["g6_infraRefusal"] THEN
    [decision |-> LLM,
     hardBlocker |-> "Organization refuses infrastructure ownership (SLM Infeasible)"]
  ELSE IF data["g7_timeToMarket"] THEN
    [decision |-> LLM,
     hardBlocker |-> "Time-to-market constraint favors managed LLMs"]
  ELSE
    [decision |-> LLM, hardBlocker |-> Undefined]

\* 1. gatekeeper logic: the if / else-if chain over the six boolean answers
GatekeeperLogic(data) ==
  IF data["g6_infraRefusal"] THEN
    [decision |-> LLM,
     hardBlocker |-> "Organization refuses infrastructure ownership (SLM Infeasible)"]
  ELSE IF data["g7_timeToMarket"] THEN
    [decision |-> LLM,
     hardBlocker |-> "Time-to-market constraint favors managed LLMs"]
  ELSE IF data["g1_edge"] THEN
    [decision |-> SLM,
     hardBlocker |-> "On-device or edge deployment requirement"]
  ELSE IF data["g2_offline"] THEN
    [decision |-> SLM,
     hardBlocker |-> "Offline or limited connectivity requirement"]
  ELSE IF data["g3_dataResidency"] THEN
    [decision |-> SLM,
     hardBlocker |-> "Internal-only data and inference requirement"]
  ELSE IF data["g4_regulatory"] THEN
    [decision |-> SLM,
     hardBlocker |-> "Regulatory mandate for model control"]
  ELSE
    [decision |-> LLM, hardBlocker |-> Undefined]

\* the contribution with the reverse flag ignored
effectiveValue_NoReverse(q, userValue) == userValue

\* the contribution with reverse questions mirrored on a 0-4 scale
effectiveValue_ZeroBasedReverse(q, userValue) ==
  IF q.reverse THEN 5 - userValue ELSE userValue

\* the contribution with the response first clamped into 1..5
effectiveValue_Clamped(q, userValue) ==
  LET clamped == IF userValue < 1 THEN 1
                 ELSE IF userValue > 5 THEN 5 ELSE userValue
  IN  IF q.reverse THEN 6 - clamped ELSE clamped

\* the contribution with the response taken on a 0-4 scale
effectiveValue_ZeroBased(q, userValue) ==
  IF q.reverse THEN 5 - userValue ELSE userValue - 1

\* the contribution of one scored question: reverse ? (6 - userValue) : userValue
effectiveValue(q, userValue) ==
  IF q.reverse THEN 6 - userValue ELSE userValue

\* 2. scoring logic: SCORED_QUESTIONS.forEach accumulating into weightedScore;
\* ScoreUpTo(data, n) is the accumulator after the first n questions
RECURSIVE ScoreUpTo(_, _)
ScoreUpTo(data, n) ==
  IF n = 0 THEN 0
  ELSE ScoreUpTo(data, n - 1)
         + effectiveValue(SCORED_QUESTIONS[n], data[SCORED_QUESTIONS[n].id])
             * SCORED_QUESTIONS[n].weight

\* the loop stopping one question short of the end of SCORED_QUESTIONS
weightedScore_SkipsLast(data) == ScoreUpTo(data, Len(SCORED_QUESTIONS) - 1)

weightedScore(data) == ScoreUpTo(data, Len(SCORED_QUESTIONS))

\* the comparison made strict
ScoreDecision_Strict(score) ==
  IF score > SCORING_THRESHOLD THEN SLM ELSE LLM

\* the comparison turned round
ScoreDecision_Reversed(score) ==
  IF score <= SCORING_THRESHOLD THEN SLM ELSE LLM

\* the decision when no hard blocker fired
ScoreDecision(score) ==
  IF score >= SCORING_THRESHOLD THEN SLM ELSE LLM

\* the engine without the "if (!hardBlocker)" test: the score always decides
Evaluate_ScoreAlwaysDecides(data) ==
  LET gate == GatekeeperLogic(data)
      score == weightedScore(data)
  IN  [decision    |-> ScoreDecision(score),
       score       |-> score,
       hardBlocker |-> gate.hardBlocker]

\* the engine with the scoring loop moved inside "if (!hardBlocker)"
Evaluate_ScoreOnlyWithoutBlocker(data) ==
  LET gate == GatekeeperLogic(data)
      score == IF gate.hardBlocker = Undefined THEN weightedScore(data) ELSE 0
  IN  [decision    |-> IF gate.hardBlocker = Undefined
                       THEN ScoreDecision(score)
                       ELSE gate.decision,
       score       |-> score,
       hardBlocker |-> gate.hardBlocker]

\* the engine with the nudge the comment at src/App.tsx 118-121 considers:
\* g5 "not_acceptable" settles an unblocked decision as SLM
Evaluate_ExternalApiNudge(data) ==
  LET gate == GatekeeperLogic(data)
      score == weightedScore(data)
  IN  [decision    |-> IF gate.hardBlocker # Undefined THEN gate.decision
                       ELSE IF data["g5_externalApi"] = "not_acceptable"
                         THEN SLM
                       ELSE ScoreDecision(score),
       score       |-> score,
       hardBlocker |-> gate.hardBlocker]

\* what handleAssessmentSubmit has computed when it builds newSubmission
Evaluate(data) ==
  LET gate == GatekeeperLogic(data)
      score == weightedScore(data)
  IN  [decision    |-> IF gate.hardBlocker = Undefined
                       THEN ScoreDecision(score)
                       ELSE gate.decision,
       score       |-> score,
       hardBlocker |-> gate.hardBlocker]


(***************************************************************************)
(* FormData values                                                         *)
(***************************************************************************)
\* a FormData: five text fields, six boolean gatekeepers (the ones in
\* trueGates answered yes), the three-valued g5 and the 14 Likert responses
MkFormData(texts, trueGates, g5, likert) ==
  texts @@ [g \in GateIds |-> g \in trueGates]
        @@ ("g5_externalApi" :> g5) @@ likert

\* src/App.tsx 194-201: the form's initial state; the text fields are not
\* set, which every reader treats as the empty string (formData.x || '')
InitialFormData ==
  MkFormData([f \in TextFields |-> ""], {}, "risk_mitigation",
             [q \in ScoredIds |-> 3])

ReverseIds ==
  {SCORED_QUESTIONS[i].id : i \in {j \in DOMAIN SCORED_QUESTIONS :
                                      SCORED_QUESTIONS[j].reverse}}

\* text fields as a user (or the scenario generator) fills them in
FilledTexts == [f \in TextFields |-> "x"]

\* the same with the two fields the form does not insist on left empty
SparseTexts ==
  [f \in TextFields |-> IF f \in {"email", "companyName"} THEN "" ELSE "y"]

\* Likert profiles used as inputs
NeutralProfile == [q \in ScoredIds |-> 3]

MaxProfile == [q \in ScoredIds |-> IF q \in ReverseIds THEN 1 ELSE 5]

MinProfile == [q \in ScoredIds |-> IF q \in ReverseIds THEN 5 ELSE 1]

\* every response "Strongly Disagree"
AllOnesProfile == [q \in ScoredIds |-> 1]

\* weighted score exactly SCORING_THRESHOLD
AtThresholdProfile ==
  [NeutralProfile EXCEPT !["s1_latency"] = 1, !["s2_volume"] = 1,
                         !["s5_narrowness"] = 1]

\* weighted score one below SCORING_THRESHOLD
BelowThresholdProfile ==
  [NeutralProfile EXCEPT !["s1_latency"] = 1, !["s2_volume"] = 1,
                         !["s3_cost"] = 2, !["s5_narrowness"] = 2]

\* src/App.tsx 17: the Likert answers of the first mock submission
MockProfile1 ==
  [NeutralProfile EXCEPT
     !["s1_latency"] = 5, !["s2_volume"] = 4, !["s3_cost"] = 5,
     !["s4_longevity"] = 5, !["s5_narrowness"] = 5, !["s6_domain"] = 5,
     !["s7_determinism"] = 5, !["s8_explainability"] = 4,
     !["s9_readiness"] = 4, !["s10_maintenance"] = 4,
     !["s11_investment"] = 4, !["s12_breadth"] = 1,
     !["s13_experimentation"] = 1, !["s14_lowVolume"] = 1]

\* src/App.tsx 32: the Likert answers of the second mock submission
MockProfile2 ==
  [NeutralProfile EXCEPT
     !["s1_latency"] = 2, !["s2_volume"] = 2, !["s3_cost"] = 2,
     !["s4_longevity"] = 2, !["s5_narrowness"] = 2, !["s6_domain"] = 2,
     !["s7_determinism"] = 3, !["s8_explainability"] = 3,
     !["s9_readiness"] = 1, !["s10_maintenance"] = 1,
     !["s11_investment"] = 1, !["s12_breadth"] = 5,
     !["s13_experimentation"] = 5, !["s14_lowVolume"] = 4]

\* a scenario whose numbers ignore the 1-5 instruction of the prompt:
\* generateRandomScenario returns JSON.parse(text) unvalidated
OutOfRangeProfile ==
  [NeutralProfile EXCEPT !["s1_latency"] = 7, !["s12_breadth"] = 0]

\* an unvalidated scenario that pushes every contribution past its maximum
OverMaxProfile ==
  [MaxProfile EXCEPT !["s1_latency"] = 7, !["s12_breadth"] = 0]

\* an unvalidated scenario whose reverse answer outweighs all the others
UnderMinProfile ==
  [MinProfile EXCEPT !["s12_breadth"] = 20]

BaseProfiles ==
  {NeutralProfile, MaxProfile, MinProfile, AllOnesProfile, AtThresholdProfile,
   BelowThresholdProfile, MockProfile1, MockProfile2, OutOfRangeProfile,
   OverMaxProfile, UnderMinProfile}

\* the profiles the form reaches from a base by answering one scored question
OneAnswerChanged(base) ==
  {[base EXCEPT ![q] = v] : q \in ScoredIds, v \in 1..5}

EngineProfiles ==
  BaseProfiles \cup OneAnswerChanged(AtThresholdProfile)

\* the g5 answer and the free-text metadata, varied together
MetaVariants ==
  {<<FilledTexts, "risk_mitigation">>, <<FilledTexts, "not_acceptable">>,
   <<SparseTexts, "fully_acceptable">>}

\* the filled-in forms the engine is evaluated on: every combination of the
\* six boolean gatekeepers with every profile and metadata variant
EngineAnswerSets ==
  {MkFormData(m[1], gates, m[2], p) :
     m \in MetaVariants, gates \in SUBSET GateIds, p \in EngineProfiles}

(***************************************************************************)
(* Submissions                                                             *)
(***************************************************************************)
\* src/App.tsx 9-40: the in-memory fallback list.  A Date is modelled by
\* the integer yyyymmdd, which orders as the dates do.
MOCK_SUBMISSIONS ==
  << [id |-> "1", user |-> "Sarah Jenkins", timestamp |-> 20250201,
      data |-> MkFormData(FilledTexts,
                          {"g1_edge", "g2_offline", "g3_dataResidency"},
                          "not_acceptable", MockProfile1),
      score |-> 240, maxScore |-> MAX_POSSIBLE_SCORE, decision |-> SLM,
      aiExplanation |-> "mock explanation 1",
      hardBlocker |-> "Offline or limited connectivity requirement"],
     [id |-> "2", user |-> "David Chen", timestamp |-> 20250202,
      data |-> MkFormData(FilledTexts,
                          {"g6_infraRefusal", "g7_timeToMarket"},
                          "fully_acceptable", MockProfile2),
      score |-> 45, maxScore |-> MAX_POSSIBLE_SCORE, decision |-> LLM,
      aiExplanation |-> "mock explanation 2",
      hardBlocker |-> "Organization refuses infrastructure ownership"] >>

\* an optional value: absent is the empty tuple, present is a 1-tuple
Null == << >>

Some(x) == << x >>

\* ids produced by Math.random().toString(36).substr(2, 9), in the order
\* the session draws them; successive draws are taken to differ
TempIds == << "k3j9x0a1b", "q7m2p5c8d", "z8y7x6w5v", "m4n3b2v1c" >>

\* the Submission with maxScore taken as 5 points per question, unweighted
NewSubmission_MaxByCount(data, tempId, now) ==
  LET r == Evaluate(data)
  IN  [id |-> tempId,
       user |-> IF data["userName"] = "" THEN "Guest User"
                ELSE data["userName"],
       timestamp |-> now,
       data |-> data,
       score |-> r.score,
       maxScore |-> 5 * Len(SCORED_QUESTIONS),
       decision |-> r.decision,
       hardBlocker |-> r.hardBlocker,
       aiExplanation |-> "Analyzing detailed constraints..."]

\* the Submission with weightedScore kept outside the handler and never
\* reset, so that each submit starts from the previous total
NewSubmission_Accumulating(data, tempId, now) ==
  LET r == Evaluate(data)
      carried == IF currentSubmission = << >> THEN 0
                 ELSE currentSubmission[1].score
      score == carried + r.score
  IN  [id |-> tempId,
       user |-> IF data["userName"] = "" THEN "Guest User"
                ELSE data["userName"],
       timestamp |-> now,
       data |-> data,
       score |-> score,
       maxScore |-> MAX_POSSIBLE_SCORE,
       decision |-> IF r.hardBlocker = Undefined THEN ScoreDecision(score)
                    ELSE r.decision,
       hardBlocker |-> r.hardBlocker,
       aiExplanation |-> "Analyzing detailed constraints..."]

\* src/App.tsx 130-142: the Submission object built from the engine's output
NewSubmission(data, tempId, now) ==
  LET r == Evaluate(data)
  IN  [id |-> tempId,
       user |-> IF data["userName"] = "" THEN "Guest User"
                ELSE data["userName"],
       timestamp |-> now,
       data |-> data,
       score |-> r.score,
       maxScore |-> MAX_POSSIBLE_SCORE,
       decision |-> r.decision,
       hardBlocker |-> r.hardBlocker,
       aiExplanation |-> "Analyzing detailed constraints..."]

(***************************************************************************)
(* src/services/gemini.ts: the narrative generator                         *)
(***************************************************************************)
\* what the text-generation API does with one request
ApiOutcomes == {"text", "empty", "error"}

\* the outcome of an async call that rejects instead of resolving
Rejected == "<promise rejected>"

\* generateEvaluation without its try / catch: a failing API call rejects
generateEvaluation_NoCatch(apiKey, apiOutcome) ==
  IF ~apiKey THEN "API Key is missing. Unable to generate AI explanation."
  ELSE IF apiOutcome = "error" THEN Rejected
  ELSE IF apiOutcome = "empty"
    THEN "Analysis generated, but no text returned."
  ELSE "generated narrative"

\* src/services/gemini.ts 75-165: the string generateEvaluation resolves to
generateEvaluation(apiKey, apiOutcome) ==
  IF ~apiKey THEN "API Key is missing. Unable to generate AI explanation."
  ELSE IF apiOutcome = "error"
    THEN "Unable to generate AI explanation due to a network or API error."
  ELSE IF apiOutcome = "empty"
    THEN "Analysis generated, but no text returned."
  ELSE "generated narrative"

\* src/services/gemini.ts 113: the maximum score the prompt text names
PromptDenominator == 280

\* src/services/gemini.ts 113: the threshold the prompt text names
PromptThreshold == 130

\* src/services/gemini.ts 113: the line of the prompt that reports the outcome,
\* the hard blocker when there is one, the score line otherwise
PromptOutcomeLine(score, hardBlocker) ==
  IF hardBlocker # Undefined
  THEN [line |-> "Hard Blocker", hardBlocker |-> hardBlocker]
  ELSE [line        |-> "Score",
        score       |-> score,
        denominator |-> PromptDenominator,
        threshold   |-> PromptThreshold]

\* src/App.tsx 446: the threshold named under the score bar of the result page
ResultThresholdLabel == 130

(***************************************************************************)
(* src/services/database.ts: the submission store                          *)
(***************************************************************************)
\* Date.toISOString and new Date(string): a Date and its ISO text are
\* different values; parsing recovers the Date
toISOString(date) == << "iso", date >>

ParseDate(iso) == iso[2]

\* src/services/database.ts 66-74: the row saveSubmission inserts
SubmissionRow(submission) ==
  [id |-> submission.id,
   user_name |-> submission.user,
   created_at |-> toISOString(submission.timestamp),
   data |-> submission.data,
   score |-> submission.score,
   decision |-> submission.decision,
   ai_explanation |-> submission.aiExplanation]

\* src/services/database.ts 50-58: a row mapped back to the app's shape:
\* the row's own columns, plus timestamp and user
RowToSubmission(d) ==
  [timestamp |-> ParseDate(d.created_at), user |-> d.user_name] @@ d

\* .order('created_at', { ascending: false }): insert row d into a list
\* already ordered newest first
RECURSIVE InsertNewestFirst(_, _)
InsertNewestFirst(d, list) ==
  IF list = << >> THEN << d >>
  ELSE IF ParseDate(d.created_at) >= ParseDate(Head(list).created_at)
    THEN << d >> \o list
  ELSE << Head(list) >> \o InsertNewestFirst(d, Tail(list))

RECURSIVE OrderNewestFirst(_)
OrderNewestFirst(rows) ==
  IF rows = << >> THEN << >>
  ELSE InsertNewestFirst(Head(rows), OrderNewestFirst(Tail(rows)))

\* fetchSubmissions without its "if (!supabase)" test: the query on the null
\* client throws
fetchSubmissions_NoGuard(configured, rows, error) ==
  IF ~configured THEN Rejected
  ELSE IF error THEN << >>
  ELSE LET ordered == OrderNewestFirst(rows)
       IN  [i \in 1..Len(ordered) |-> RowToSubmission(ordered[i])]

\* src/services/database.ts 33-59: what fetchSubmissions resolves to
fetchSubmissions(configured, rows, error) ==
  IF ~configured THEN << >>
  ELSE IF error THEN << >>
  ELSE LET ordered == OrderNewestFirst(rows)
       IN  [i \in 1..Len(ordered) |-> RowToSubmission(ordered[i])]

\* src/services/database.ts 61-81: the table after saveSubmission
saveSubmission(configured, rows, error, submission) ==
  IF ~configured \/ error THEN rows
  ELSE Append(rows, SubmissionRow(submission))

\* src/services/database.ts 61-81: the boolean saveSubmission resolves to
saveSubmissionReturns(configured, error) ==
  IF ~configured THEN FALSE
  ELSE IF error THEN FALSE
  ELSE TRUE

(***************************************************************************)
(* src/unnamed/part_001: the submission store with the hard_blocker column *)
(***************************************************************************)
\* a column that holds SQL NULL, which the client returns as null
SqlNull == "null"

\* the inserted row with hard_blocker left out of the insert
SubmissionRow_part001_NullBlocker(submission) ==
  [id |-> submission.id,
   user_name |-> submission.user,
   created_at |-> toISOString(submission.timestamp),
   data |-> submission.data,
   score |-> submission.score,
   decision |-> submission.decision,
   ai_explanation |-> submission.aiExplanation,
   hard_blocker |-> SqlNull]

\* src/unnamed/part_001 72-81: the row saveSubmission inserts; an undefined
\* hardBlocker is dropped from the request body and the column stays NULL
SubmissionRow_part001(submission) ==
  [id |-> submission.id,
   user_name |-> submission.user,
   created_at |-> toISOString(submission.timestamp),
   data |-> submission.data,
   score |-> submission.score,
   decision |-> submission.decision,
   ai_explanation |-> submission.aiExplanation,
   hard_blocker |-> IF submission.hardBlocker = Undefined THEN SqlNull
                    ELSE submission.hardBlocker]

\* src/unnamed/part_001 51-64: a row mapped to the Submission shape; the
\* table has no max_score or hardBlocker column, so "??" falls through
RowToSubmission_part001(d) ==
  [id |-> d.id,
   user |-> IF d.user_name # SqlNull THEN d.user_name ELSE "",
   timestamp |-> ParseDate(d.created_at),
   data |-> d.data,
   score |-> d.score,
   maxScore |-> MAX_POSSIBLE_SCORE,
   decision |-> IF d.decision # SqlNull THEN d.decision ELSE "",
   aiExplanation |-> IF d.ai_explanation # SqlNull THEN d.ai_explanation
                     ELSE "",
   hardBlocker |-> IF d.hard_blocker # SqlNull THEN d.hard_blocker
                   ELSE Undefined]

\* src/unnamed/part_001 34-65: what fetchSubmissions resolves to
fetchSubmissions_part001(configured, rows, error) ==
  IF ~configured THEN << >>
  ELSE IF error THEN << >>
  ELSE LET ordered == OrderNewestFirst(rows)
       IN  [i \in 1..Len(ordered) |-> RowToSubmission_part001(ordered[i])]

\* src/unnamed/part_001 67-88: the table after saveSubmission
saveSubmission_part001(configured, rows, error, submission) ==
  IF ~configured \/ error THEN rows
  ELSE Append(rows, SubmissionRow_part001(submission))

\* rows that earlier sessions of the application saved, in insertion order
EarlierRows ==
  << SubmissionRow([NewSubmission(MkFormData(FilledTexts, {"g2_offline"},
                                   "not_acceptable", MaxProfile),
                                   "e1a2b3c4d", 20251101)
                      EXCEPT !.aiExplanation = "generated narrative"]),
     SubmissionRow([NewSubmission(MkFormData(FilledTexts, {},
                                   "risk_mitigation", MinProfile),
                                   "f5g6h7i8j", 20251202)
                      EXCEPT !.aiExplanation = "generated narrative"]) >>

(***************************************************************************)
(* Inputs of a session                                                     *)
(***************************************************************************)
\* objects the scenario generator may hand back (JSON.parse of the reply)
Scenarios ==
  {MkFormData(FilledTexts, {"g6_infraRefusal", "g1_edge"}, "fully_acceptable",
              MaxProfile)}

\* (field, value) pairs a user enters through the form's controls
ChangeInputs ==
  {<<"userName", "x">>, <<"projectName", "x">>,
   <<"projectDescription", "x">>}

\* what a visitor types into the password field of the login form
Passwords == {"$Infovision2026$", "guess"}

(***************************************************************************)
(* Actions                                                                 *)
(***************************************************************************)
\* the form rendered without the "if (isLoading)" early return
FormMounted_WhileLoading == view = "ASSESSMENT"

\* AssessmentPage is rendered (src/App.tsx 165-176)
FormMounted == ~isLoading /\ view = "ASSESSMENT"

\* the state right after the first render, before loadData resolves
Init ==
  /\ view = "ASSESSMENT"
  /\ submissions = << >>
  /\ currentSubmission = Null
  /\ isAdmin = FALSE
  /\ isLoading = TRUE
  /\ formData = InitialFormData
  /\ isGenerating = FALSE
  /\ pending = << >>
  /\ env \in [apiKey : BOOLEAN, supabase : BOOLEAN]
  /\ table = IF env.supabase THEN EarlierRows ELSE << >>
  /\ clock = 20260101
  /\ submits = 0
  /\ edits = 0
  /\ alerts = 0
  /\ loginError = FALSE
  /\ password = ""

\* setView: leaving the assessment view unmounts the form, and its state
\* is created afresh when the view is entered again
SetView(v) ==
  /\ view' = v
  /\ IF v = "ASSESSMENT" /\ view = "ASSESSMENT"
     THEN UNCHANGED <<formData, isGenerating>>
     ELSE formData' = InitialFormData /\ isGenerating' = FALSE
  /\ IF v = "LOGIN" /\ view = "LOGIN"
     THEN UNCHANGED <<loginError, password>>
     ELSE loginError' = FALSE /\ password' = ""

\* loadData without the length test: whatever fetchSubmissions resolves to
\* becomes the list
LoadData_NoFallback(fetchError, fetchThrows) ==
  /\ isLoading
  /\ LET dbData == fetchSubmissions(env.supabase, table, fetchError)
     IN  submissions' = IF ~fetchThrows THEN dbData ELSE MOCK_SUBMISSIONS
  /\ isLoading' = FALSE
  /\ UNCHANGED <<alerts, loginError, password>>
  /\ UNCHANGED <<view, currentSubmission, isAdmin, formData, isGenerating,
                 pending, env, table, clock, submits, edits>>

\* src/App.tsx 50-67: loadData; fetchError is the store reporting an error,
\* fetchThrows the awaited call rejecting
LoadData(fetchError, fetchThrows) ==
  /\ isLoading
  /\ LET dbData == fetchSubmissions(env.supabase, table, fetchError)
     IN  submissions' = IF ~fetchThrows /\ Len(dbData) > 0 THEN dbData
                        ELSE MOCK_SUBMISSIONS
  /\ isLoading' = FALSE
  /\ UNCHANGED <<alerts, loginError, password>>
  /\ UNCHANGED <<view, currentSubmission, isAdmin, formData, isGenerating,
                 pending, env, table, clock, submits, edits>>

\* src/App.tsx 206-208: handleChange(field, value) of the mounted form
HandleChange(field, value) ==
  /\ FormMounted
  /\ edits < MaxEdits
  /\ submits < MaxSubmits
  /\ formData[field] # value
  /\ formData' = [formData EXCEPT ![field] = value]
  /\ edits' = edits + 1
  /\ UNCHANGED <<alerts, loginError, password>>
  /\ UNCHANGED <<view, submissions, currentSubmission, isAdmin, isLoading,
                 isGenerating, pending, env, table, clock, submits>>

\* src/App.tsx 210-212: handleGenerateScenario up to its await; the button
\* is disabled while a request is in flight
GenerateScenarioStart ==
  /\ FormMounted
  /\ ~isGenerating
  /\ submits < MaxSubmits
  /\ isGenerating' = TRUE
  /\ UNCHANGED <<alerts, loginError, password>>
  /\ UNCHANGED <<view, submissions, currentSubmission, isAdmin, isLoading,
                 formData, pending, env, table, clock, submits, edits>>

\* src/App.tsx 213-218 with src/services/gemini.ts 4-73: the request
\* resolves to a scenario, which replaces the whole form, or to null
GenerateScenarioResolve(scenario) ==
  /\ FormMounted
  /\ isGenerating
  /\ formData' = IF env.apiKey /\ scenario # Null THEN scenario[1]
                 ELSE formData
  /\ isGenerating' = FALSE
  /\ UNCHANGED <<alerts, loginError, password>>
  /\ UNCHANGED <<view, submissions, currentSubmission, isAdmin, isLoading,
                 pending, env, table, clock, submits, edits>>

\* the required-field check without its userName test
RequiredFieldsFilled_NoUserName(data) ==
  /\ data["projectName"] # ""
  /\ data["projectDescription"] # ""

\* the required-field check of AssessmentPage.handleSubmit (src/App.tsx 223)
RequiredFieldsFilled(data) ==
  /\ data["projectName"] # ""
  /\ data["projectDescription"] # ""
  /\ data["userName"] # ""

\* src/App.tsx 221-226: the form's handleSubmit with a required field empty:
\* the alert is shown and the handler returns
HandleSubmitRejected ==
  /\ FormMounted
  /\ ~RequiredFieldsFilled(formData)
  /\ alerts < MaxAlerts
  /\ alerts' = alerts + 1
  /\ UNCHANGED <<view, submissions, currentSubmission, isAdmin, isLoading,
                 formData, isGenerating, pending, env, table, clock, submits,
                 edits, loginError, password>>

\* the handler with "await generateEvaluation" moved above the two setters:
\* nothing is published and the view stays until the narrative is there
HandleSubmit_AwaitFirst ==
  /\ FormMounted
  /\ RequiredFieldsFilled(formData)
  /\ submits < MaxSubmits
  /\ pending' = Append(pending,
                       NewSubmission(formData, TempIds[submits + 1], clock))
  /\ clock' = clock + 1
  /\ submits' = submits + 1
  /\ UNCHANGED <<alerts, loginError, password>>
  /\ UNCHANGED <<view, formData, isGenerating, currentSubmission, submissions,
                 isAdmin, isLoading, env, table, edits>>

\* src/App.tsx 221-229 and 75-145: the form's handleSubmit, then
\* handleAssessmentSubmit up to its first await: the engine runs, the
\* submission is published and the view switches to RESULT
HandleSubmit ==
  /\ FormMounted
  /\ RequiredFieldsFilled(formData)
  /\ submits < MaxSubmits
  /\ LET newSubmission == NewSubmission(formData, TempIds[submits + 1], clock)
     IN  /\ currentSubmission' = Some(newSubmission)
         /\ pending' = Append(pending, newSubmission)
  /\ SetView("RESULT")
  /\ clock' = clock + 1
  /\ submits' = submits + 1
  /\ UNCHANGED alerts
  /\ UNCHANGED <<submissions, isAdmin, isLoading, env, table, edits>>

\* a sequence without its i-th element
RemoveAt(seq, i) ==
  [j \in 1..(Len(seq) - 1) |-> IF j < i THEN seq[j] ELSE seq[j + 1]]

\* the handler adding the submission to the list only when the store took it
NarrativeResolve_SaveGates(i, apiOutcome, saveError) ==
  /\ i \in DOMAIN pending
  /\ LET explanation == generateEvaluation(env.apiKey, apiOutcome)
         finalSubmission == [pending[i] EXCEPT !.aiExplanation = explanation]
     IN  /\ currentSubmission' = Some(finalSubmission)
         /\ submissions' = IF saveSubmissionReturns(env.supabase, saveError)
                           THEN << finalSubmission >> \o submissions
                           ELSE submissions
         /\ table' = saveSubmission(env.supabase, table, saveError,
                                    finalSubmission)
  /\ pending' = RemoveAt(pending, i)
  /\ UNCHANGED <<alerts, loginError, password>>
  /\ UNCHANGED <<view, isAdmin, isLoading, formData, isGenerating, env,
                 clock, submits, edits>>

\* the handler building finalSubmission afresh, with a new timestamp, instead
\* of spreading newSubmission
NarrativeResolve_Restamped(i, apiOutcome, saveError) ==
  /\ i \in DOMAIN pending
  /\ LET explanation == generateEvaluation(env.apiKey, apiOutcome)
         finalSubmission == [pending[i] EXCEPT !.aiExplanation = explanation,
                                               !.timestamp = clock]
     IN  /\ currentSubmission' = Some(finalSubmission)
         /\ submissions' = << finalSubmission >> \o submissions
         /\ table' = saveSubmission(env.supabase, table, saveError,
                                    finalSubmission)
  /\ pending' = RemoveAt(pending, i)
  /\ UNCHANGED <<alerts, loginError, password>>
  /\ UNCHANGED <<view, isAdmin, isLoading, formData, isGenerating, env,
                 clock, submits, edits>>

\* the handler returning early when the narrative is the API-error fallback:
\* the failed submission is shown but never listed or saved
NarrativeResolve_DropsOnFailure(i, apiOutcome, saveError) ==
  /\ i \in DOMAIN pending
  /\ LET explanation == generateEvaluation(env.apiKey, apiOutcome)
         finalSubmission == [pending[i] EXCEPT !.aiExplanation = explanation]
         failed == explanation =
           "Unable to generate AI explanation due to a network or API error."
     IN  /\ currentSubmission' = Some(finalSubmission)
         /\ submissions' = IF failed THEN submissions
                           ELSE << finalSubmission >> \o submissions
         /\ table' = IF failed THEN table
                     ELSE saveSubmission(env.supabase, table, saveError,
                                         finalSubmission)
  /\ pending' = RemoveAt(pending, i)
  /\ UNCHANGED <<alerts, loginError, password>>
  /\ UNCHANGED <<view, isAdmin, isLoading, formData, isGenerating, env,
                 clock, submits, edits>>

\* src/App.tsx 148-155: generateEvaluation resolves for the i-th call in
\* flight; the narrative is attached, the submission joins the list and
\* saveSubmission is called once
NarrativeResolve(i, apiOutcome, saveError) ==
  /\ i \in DOMAIN pending
  /\ LET explanation == generateEvaluation(env.apiKey, apiOutcome)
         finalSubmission == [pending[i] EXCEPT !.aiExplanation = explanation]
     IN  /\ currentSubmission' = Some(finalSubmission)
         /\ submissions' = << finalSubmission >> \o submissions
         /\ table' = saveSubmission(env.supabase, table, saveError,
                                    finalSubmission)
  /\ pending' = RemoveAt(pending, i)
  /\ UNCHANGED <<alerts, loginError, password>>
  /\ UNCHANGED <<view, isAdmin, isLoading, formData, isGenerating, env,
                 clock, submits, edits>>

\* src/App.tsx 148-155 with the store of src/unnamed/part_001: the narrative
\* resolves, the submission joins the list and is saved with its blocker
NarrativeResolveStored(i, apiOutcome, saveError) ==
  /\ i \in DOMAIN pending
  /\ LET explanation == generateEvaluation(env.apiKey, apiOutcome)
         finalSubmission == [pending[i] EXCEPT !.aiExplanation = explanation]
     IN  /\ currentSubmission' = Some(finalSubmission)
         /\ submissions' = << finalSubmission >> \o submissions
         /\ table' = saveSubmission_part001(env.supabase, table, saveError,
                                            finalSubmission)
  /\ pending' = RemoveAt(pending, i)
  /\ UNCHANGED <<alerts, loginError, password>>
  /\ UNCHANGED <<view, isAdmin, isLoading, formData, isGenerating, env,
                 clock, submits, edits>>

\* src/components/Navbar.tsx 16-51: the navigation bar's four targets
NavbarClick(target) ==
  /\ ~isLoading
  /\ \/ target = "ASSESSMENT" /\ SetView("ASSESSMENT")
     \/ target = "RULES" /\ SetView("RULES")
     \/ target = "DASHBOARD" /\ isAdmin /\ SetView("ADMIN")
     \/ target = "USER" /\ SetView(IF isAdmin THEN "ADMIN" ELSE "LOGIN")
  /\ UNCHANGED alerts
  /\ UNCHANGED <<submissions, currentSubmission, isAdmin, isLoading, pending,
                 env, table, clock, submits, edits>>

\* src/App.tsx 177: the two buttons of the result page
ResultPageClick(target) ==
  /\ ~isLoading
  /\ view = "RESULT"
  /\ currentSubmission # Null
  /\ \/ target = "RESET" /\ SetView("ASSESSMENT")
     \/ target = "RULES" /\ SetView("RULES")
  /\ UNCHANGED alerts
  /\ UNCHANGED <<submissions, currentSubmission, isAdmin, isLoading, pending,
                 env, table, clock, submits, edits>>

\* src/App.tsx 597: the password input's onChange, setPassword and
\* setError(false)
TypePassword(typed) ==
  /\ ~isLoading
  /\ view = "LOGIN"
  /\ password # typed
  /\ password' = typed
  /\ loginError' = FALSE
  /\ UNCHANGED <<view, submissions, currentSubmission, isAdmin, isLoading,
                 formData, isGenerating, pending, env, table, clock, submits,
                 edits, alerts>>

\* handleLogin called with true whatever was typed
LoginSubmit_IgnoresPassword ==
  /\ ~isLoading
  /\ view = "LOGIN"
  /\ isAdmin' = TRUE
  /\ SetView("ADMIN")
  /\ UNCHANGED <<submissions, currentSubmission, isLoading, pending, env,
                 table, clock, submits, edits, alerts>>

\* src/App.tsx 565-577 and 158-163: LoginPage.handleSubmit, then handleLogin
LoginSubmit ==
  /\ ~isLoading
  /\ view = "LOGIN"
  /\ IF password = "$Infovision2026$"
     THEN isAdmin' = TRUE /\ SetView("ADMIN")
     ELSE /\ loginError' = TRUE
          /\ UNCHANGED <<isAdmin, view, formData, isGenerating, password>>
  /\ UNCHANGED <<submissions, currentSubmission, isLoading, pending, env,
                 table, clock, submits, edits, alerts>>

Next ==
  \/ \E fetchError \in BOOLEAN, fetchThrows \in BOOLEAN :
       LoadData(fetchError, fetchThrows)
  \/ \E c \in ChangeInputs : HandleChange(c[1], c[2])
  \/ GenerateScenarioStart
  \/ \E scenario \in {Null} \cup {Some(f) : f \in Scenarios} :
       GenerateScenarioResolve(scenario)
  \/ HandleSubmit
  \/ \E i \in DOMAIN pending, apiOutcome \in ApiOutcomes,
        saveError \in BOOLEAN : NarrativeResolve(i, apiOutcome, saveError)
  \/ \E target \in {"RESET", "RULES"} : ResultPageClick(target)

\* the session of one visitor: loading, filling in the form, submitting and
\* reading results (the navigation bar and the login page are left to
\* NavbarClick and LoginSubmit, which do not touch the engine's state)
Spec == Init /\ [][Next]_vars

\* every control of the application: loading, typing, generated scenarios,
\* accepted and rejected submits, the result page, the navigation bar and
\* the login form; every narrative call ends in text and no save fails
NextApp ==
  \/ \E fetchError \in BOOLEAN, fetchThrows \in BOOLEAN :
       LoadData(fetchError, fetchThrows)
  \/ \E c \in ChangeInputs : HandleChange(c[1], c[2])
  \/ GenerateScenarioStart
  \/ \E scenario \in {Null} \cup {Some(f) : f \in Scenarios} :
       GenerateScenarioResolve(scenario)
  \/ HandleSubmit
  \/ HandleSubmitRejected
  \/ \E i \in DOMAIN pending : NarrativeResolve(i, "text", FALSE)
  \/ \E target \in {"RESET", "RULES"} : ResultPageClick(target)
  \/ \E target \in {"ASSESSMENT", "RULES", "DASHBOARD", "USER"} :
       NavbarClick(target)
  \/ \E typed \in Passwords : TypePassword(typed)
  \/ LoginSubmit

SpecApp == Init /\ [][NextApp]_vars

\* the session in which every generateEvaluation call in flight resolves:
\* the call is one awaited request that ends in text, empty text or an error
SpecFair ==
  Spec /\ WF_vars(\E apiOutcome \in ApiOutcomes, saveError \in BOOLEAN :
                    NarrativeResolve(1, apiOutcome, saveError))

(***************************************************************************)
(* The engine on its own: one filled-in form per behaviour                 *)
(***************************************************************************)
\* the session after loadData fell back to the mock list, with the form
\* filled in by the user
InitEngine ==
  /\ view = "ASSESSMENT"
  /\ submissions = MOCK_SUBMISSIONS
  /\ currentSubmission = Null
  /\ isAdmin = FALSE
  /\ isLoading = FALSE
  /\ formData \in EngineAnswerSets
  /\ isGenerating = FALSE
  /\ pending = << >>
  /\ env = [apiKey |-> TRUE, supabase |-> FALSE]
  /\ table = << >>
  /\ clock = 20260101
  /\ submits = 0
  /\ edits = 0
  /\ alerts = 0
  /\ loginError = FALSE
  /\ password = ""

NextEngine ==
  \/ HandleSubmit
  \/ \E i \in DOMAIN pending, apiOutcome \in ApiOutcomes :
       NarrativeResolve(i, apiOutcome, FALSE)

SpecEngine == InitEngine /\ [][NextEngine]_vars

(***************************************************************************)
(* The store of src/unnamed/part_001 behind the submit handler             *)
(***************************************************************************)
\* forms submitted to a configured store: with and without a hard blocker,
\* with valid and with unvalidated Likert responses
StoreAnswerSets ==
  {MkFormData(m[1], gates, m[2], p) :
     m \in MetaVariants,
     gates \in {{}, {"g1_edge"}, {"g6_infraRefusal", "g2_offline"},
                {"g7_timeToMarket"}},
     p \in BaseProfiles}

\* the session after an empty table was loaded, the form filled in
InitStore ==
  /\ view = "ASSESSMENT"
  /\ submissions = MOCK_SUBMISSIONS
  /\ currentSubmission = Null
  /\ isAdmin = FALSE
  /\ isLoading = FALSE
  /\ formData \in StoreAnswerSets
  /\ isGenerating = FALSE
  /\ pending = << >>
  /\ env = [apiKey |-> TRUE, supabase |-> TRUE]
  /\ table = << >>
  /\ clock = 20260101
  /\ submits = 0
  /\ edits = 0
  /\ alerts = 0
  /\ loginError = FALSE
  /\ password = ""

NextStore ==
  \/ HandleSubmit
  \/ \E i \in DOMAIN pending, apiOutcome \in ApiOutcomes,
        saveError \in BOOLEAN : NarrativeResolveStored(i, apiOutcome, saveError)

SpecStore == InitStore /\ [][NextStore]_vars

(***************************************************************************)
(* Properties                                                              *)
(***************************************************************************)
\* the ids this session gave to its own submissions
SessionIds == {TempIds[i] : i \in 1..submits}

\* every Submission object handleAssessmentSubmit has built and that the
\* state still holds: the published one, the ones awaiting their narrative,
\* and the ones already added to the list
Results ==
  {currentSubmission[i] : i \in DOMAIN currentSubmission}
    \cup {pending[i] : i \in DOMAIN pending}
    \cup {submissions[i] : i \in {j \in DOMAIN submissions :
                                     submissions[j].id \in SessionIds}}

\* C1: whenever g6_infraRefusal or g7_timeToMarket is answered yes, the
\* submit handler's decision is LLM, whatever the SLM-forcing gatekeepers
\* and the Likert responses are
C1_LlmForcersWin ==
  \A r \in Results :
    (r.data["g6_infraRefusal"] \/ r.data["g7_timeToMarket"])
      => r.decision = LLM

\* an LLM forcer, an SLM forcer and the maximal score together, decided LLM
C1_Witness ==
  \E r \in Results :
    /\ r.data["g7_timeToMarket"] /\ ~r.data["g6_infraRefusal"]
    /\ r.data["g1_edge"] /\ r.data["g3_dataResidency"]
    /\ r.score = MAX_POSSIBLE_SCORE
    /\ r.decision = LLM

\* C2: with g6 and g7 answered no and at least one of g1..g4 answered yes,
\* the decision is SLM whatever the score is
C2_SlmForcersBeatScore ==
  \A r \in Results :
    ( /\ ~r.data["g6_infraRefusal"] /\ ~r.data["g7_timeToMarket"]
      /\ \/ r.data["g1_edge"] \/ r.data["g2_offline"]
         \/ r.data["g3_dataResidency"] \/ r.data["g4_regulatory"] )
      => r.decision = SLM

\* only g4 answered yes and every Likert response 1: the score alone would
\* say LLM, the decision is SLM
C2_Witness ==
  \E r \in Results :
    /\ \A g \in GateIds : r.data[g] <=> (g = "g4_regulatory")
    /\ \A q \in ScoredIds : r.data[q] = 1
    /\ r.score < SCORING_THRESHOLD
    /\ r.decision = SLM

\* C3: whenever a gatekeeper is answered yes, the reported hardBlocker is the
\* hardBlockerText that GATEKEEPER_QUESTIONS declares for the first one
\* answered yes in the order g6, g7, g1, g2, g3, g4
C3_BlockerTextFromTable ==
  LET order == << "g6_infraRefusal", "g7_timeToMarket", "g1_edge",
                  "g2_offline", "g3_dataResidency", "g4_regulatory" >>
      declared(id) ==
        LET i == CHOOSE k \in DOMAIN GATEKEEPER_QUESTIONS :
                   GATEKEEPER_QUESTIONS[k].id = id
        IN  GATEKEEPER_QUESTIONS[i].hardBlockerText
  IN  \A r \in Results :
        \A n \in DOMAIN order :
          ( /\ r.data[order[n]]
            /\ \A k \in 1..(n - 1) : ~r.data[order[k]] )
            => r.hardBlocker = declared(order[n])

\* C4: with all six boolean gatekeepers answered no, hardBlocker is absent
\* and the decision is SLM exactly when score >= SCORING_THRESHOLD,
\* otherwise LLM
C4_ScoreDrivenPath ==
  \A r \in Results :
    (\A g \in GateIds : ~r.data[g])
      => /\ r.hardBlocker = Undefined
         /\ r.decision \in {SLM, LLM}
         /\ (r.decision = SLM) <=> (r.score >= 130)

\* no gatekeeper, a score of exactly 130: decided SLM
C4_Witness ==
  \E r \in Results :
    /\ \A g \in GateIds : ~r.data[g]
    /\ r.score = 130
    /\ r.decision = SLM

\* C5: the reported score is the sum over the 14 scored questions of
\* weight * (reverse ? 6 - response : response), whatever the gatekeeper
\* answers are, and a fired hard blocker's decision is the forced one
\* whatever the score is
C5_ScoreFormula ==
  LET term(r, i) ==
        LET q == SCORED_QUESTIONS[i]
        IN  q.weight * (IF q.reverse THEN 6 - r.data[q.id] ELSE r.data[q.id])
      total(r) ==
        term(r, 1) + term(r, 2) + term(r, 3) + term(r, 4) + term(r, 5)
          + term(r, 6) + term(r, 7) + term(r, 8) + term(r, 9) + term(r, 10)
          + term(r, 11) + term(r, 12) + term(r, 13) + term(r, 14)
  IN  \A r \in Results :
        /\ Len(SCORED_QUESTIONS) = 14
        /\ r.score = total(r)
        /\ r.hardBlocker # Undefined =>
             r.decision = IF r.data["g6_infraRefusal"]
                             \/ r.data["g7_timeToMarket"]
                          THEN LLM ELSE SLM

\* a blocker fired and forced SLM while the reported score, 52, is the one
\* the same Likert answers give without any gatekeeper
C5_Witness ==
  \E r \in Results :
    /\ r.data["g1_edge"]
    /\ r.hardBlocker # Undefined
    /\ r.decision = SLM
    /\ r.score = 52
    /\ \A q \in ScoredIds : r.data[q] = IF q \in ReverseIds THEN 5 ELSE 1

\* C6: with every Likert response in 1..5, 0 <= score <= maxScore; the
\* reported maxScore is the same for every input, 5 times the sum of the
\* weights in SCORED_QUESTIONS
C6_ScoreBounds ==
  LET w(i) == SCORED_QUESTIONS[i].weight
      totalWeight ==
        w(1) + w(2) + w(3) + w(4) + w(5) + w(6) + w(7) + w(8) + w(9) + w(10)
          + w(11) + w(12) + w(13) + w(14)
  IN  \A r \in Results :
        /\ Len(SCORED_QUESTIONS) = 14
        /\ r.maxScore = 5 * totalWeight
        /\ (\A q \in ScoredIds : r.data[q] \in 1..5)
             => (0 <= r.score /\ r.score <= r.maxScore)

\* a valid answer set whose score reaches the reported maximum
C6_Witness ==
  \E r \in Results :
    /\ \A q \in ScoredIds : r.data[q] \in 1..5
    /\ r.score = r.maxScore

\* C7: raising the response to one non-reverse question, all other answers
\* fixed, never gives a smaller score than the reported one; raising the
\* response to one reverse question never gives a larger one
C7_Monotone ==
  \A r \in Results :
    \A i \in DOMAIN SCORED_QUESTIONS :
      LET q == SCORED_QUESTIONS[i].id
      IN  \A v \in 1..5 :
            v > r.data[q] =>
              LET raised == weightedScore([r.data EXCEPT ![q] = v])
              IN  IF q \in {"s12_breadth", "s13_experimentation",
                            "s14_lowVolume"}
                  THEN raised <= r.score
                  ELSE raised >= r.score

\* a reported score which raising s1_latency makes strictly larger and
\* raising s12_breadth makes strictly smaller
C7_Witness ==
  \E r \in Results :
    /\ r.data["s1_latency"] < 5 /\ r.data["s12_breadth"] < 5
    /\ weightedScore([r.data EXCEPT !["s1_latency"] = 5]) > r.score
    /\ weightedScore([r.data EXCEPT !["s12_breadth"] = 5]) < r.score

\* C8: the engine is deterministic: two submissions of one session that
\* carry the same answer set carry the same decision, score and hardBlocker,
\* whatever happened between the two submits
C8_Deterministic ==
  \A r1 \in Results, r2 \in Results :
    r1.data = r2.data =>
      /\ r1.decision = r2.decision
      /\ r1.score = r2.score
      /\ r1.hardBlocker = r2.hardBlocker

\* the same answer set submitted twice, the first submit already completed
\* and listed when the second one is evaluated
C8_Witness ==
  \E r1 \in Results, r2 \in Results :
    /\ r1.id # r2.id
    /\ r1.data = r2.data
    /\ r1.timestamp < r2.timestamp
    /\ \E i \in DOMAIN submissions : submissions[i] = r1
    /\ r1.aiExplanation # r2.aiExplanation

\* C9: SCORING_THRESHOLD is exactly half of MAX_POSSIBLE_SCORE, the maximum
\* every submission reports, and MAX_POSSIBLE_SCORE is exactly 5 times the
\* sum of the declared weights
C9_ThresholdIsHalfOfMax ==
  LET w(i) == SCORED_QUESTIONS[i].weight
      totalWeight ==
        w(1) + w(2) + w(3) + w(4) + w(5) + w(6) + w(7) + w(8) + w(9) + w(10)
          + w(11) + w(12) + w(13) + w(14)
  IN  \A r \in Results :
        /\ Len(SCORED_QUESTIONS) = 14
        /\ r.maxScore = MAX_POSSIBLE_SCORE
        /\ 2 * SCORING_THRESHOLD = MAX_POSSIBLE_SCORE
        /\ MAX_POSSIBLE_SCORE = 5 * totalWeight

\* an unblocked result whose score is exactly half of its reported maximum:
\* it meets the threshold and is decided SLM
C9_Witness ==
  \E r \in Results :
    /\ r.hardBlocker = Undefined
    /\ 2 * r.score = r.maxScore
    /\ r.score >= SCORING_THRESHOLD
    /\ r.decision = SLM

\* C10: the g5_externalApi answer and the free-text metadata do not
\* influence the engine: an answer set that agrees with a submitted one on
\* the six boolean gatekeepers and the 14 Likert responses evaluates to the
\* submitted decision, score and hardBlocker
C10_MetadataIgnored ==
  \A r \in Results :
    \A g5 \in ExternalApiChoice :
      \A texts \in {FilledTexts, SparseTexts, [f \in TextFields |-> ""]} :
        LET other == texts @@ ("g5_externalApi" :> g5) @@ r.data
            e == Evaluate(other)
        IN  /\ e.decision = r.decision
            /\ e.score = r.score
            /\ e.hardBlocker = r.hardBlocker

\* an unblocked submission below the threshold whose g5 answer is
\* "not_acceptable": decided LLM by the score alone
C10_Witness ==
  \E r \in Results :
    /\ r.data["g5_externalApi"] = "not_acceptable"
    /\ r.hardBlocker = Undefined
    /\ r.score < SCORING_THRESHOLD
    /\ r.decision = LLM

\* C11: with all six gatekeepers answered no and every Likert response 3
\* (the form's defaults), hardBlocker is absent, the score is 3 times the sum
\* of all weights, and the decision is SLM exactly when that product reaches
\* SCORING_THRESHOLD
C11_NeutralDefaults ==
  LET w(i) == SCORED_QUESTIONS[i].weight
      totalWeight ==
        w(1) + w(2) + w(3) + w(4) + w(5) + w(6) + w(7) + w(8) + w(9) + w(10)
          + w(11) + w(12) + w(13) + w(14)
  IN  \A r \in Results :
        ( /\ \A g \in GateIds : ~r.data[g]
          /\ \A q \in ScoredIds : r.data[q] = 3 )
          => /\ Len(SCORED_QUESTIONS) = 14
             /\ r.hardBlocker = Undefined
             /\ r.score = 3 * totalWeight
             /\ r.decision \in ModelChoice
             /\ (r.decision = SLM) <=> (3 * totalWeight >= SCORING_THRESHOLD)

\* the defaults submitted: no blocker, score 156, decided SLM
C11_Witness ==
  \E r \in Results :
    /\ \A g \in GateIds : ~r.data[g]
    /\ \A q \in ScoredIds : r.data[q] = 3
    /\ r.data["g5_externalApi"] = "risk_mitigation"
    /\ r.hardBlocker = Undefined
    /\ r.score = 156
    /\ r.decision = SLM

\* the valid answer sets a submitted one is compared with: the same form
\* with any one Likert response replaced by a value of 1..5, and the same
\* form with any of the profiles of valid responses
ValidAlternatives(data) ==
  {[data EXCEPT ![q] = v] : q \in ScoredIds, v \in 1..5}
    \cup {p @@ data : p \in {e \in EngineProfiles :
                               \A q \in ScoredIds : e[q] \in 1..5}}

\* C12: with no gatekeeper answered yes, every non-reverse question
\* answered 5 and every reverse question answered 1, the score equals
\* maxScore, no valid answer set scores higher, and the decision is SLM
C12_MaximalAnswers ==
  \A r \in Results :
    ( /\ \A g \in GateIds : ~r.data[g]
      /\ \A i \in DOMAIN SCORED_QUESTIONS :
           r.data[SCORED_QUESTIONS[i].id] =
             IF SCORED_QUESTIONS[i].reverse THEN 1 ELSE 5 )
      => /\ r.score = r.maxScore
         /\ \A other \in ValidAlternatives(r.data) :
              weightedScore(other) <= r.score
         /\ r.hardBlocker = Undefined
         /\ r.decision = SLM

\* the maximal answers submitted without any gatekeeper: 260 of 260, SLM
C12_Witness ==
  \E r \in Results :
    /\ \A g \in GateIds : ~r.data[g]
    /\ \A q \in ScoredIds : r.data[q] = IF q \in ReverseIds THEN 1 ELSE 5
    /\ r.score = 260 /\ r.maxScore = 260
    /\ r.decision = SLM

\* C13: with no gatekeeper answered yes, every non-reverse question
\* answered 1 and every reverse question answered 5, no valid answer set
\* scores lower, and the decision is LLM
C13_MinimalAnswers ==
  \A r \in Results :
    ( /\ \A g \in GateIds : ~r.data[g]
      /\ \A i \in DOMAIN SCORED_QUESTIONS :
           r.data[SCORED_QUESTIONS[i].id] =
             IF SCORED_QUESTIONS[i].reverse THEN 5 ELSE 1 )
      => /\ \A other \in ValidAlternatives(r.data) :
              weightedScore(other) >= r.score
         /\ r.hardBlocker = Undefined
         /\ r.decision = LLM

\* the minimal answers submitted without any gatekeeper: the score is the
\* sum of the weights, 52, and the decision LLM
C13_Witness ==
  \E r \in Results :
    /\ \A g \in GateIds : ~r.data[g]
    /\ \A q \in ScoredIds : r.data[q] = IF q \in ReverseIds THEN 5 ELSE 1
    /\ r.score = 52
    /\ r.decision = LLM

\* the ids of the submits whose generateEvaluation call has not resolved
PendingIds == {pending[i].id : i \in DOMAIN pending}

\* C14: every submit publishes the submission as currentSubmission with the
\* engine's decision, score and hardBlocker and the placeholder explanation,
\* and switches the view to RESULT, while its narrative call is still in
\* flight and before it joins the list; as long as a submit's call is in
\* flight every copy of its submission carries the placeholder; a submission
\* with another explanation appears only by a step that resolves a call which
\* was in flight, with the decision, score and hardBlocker published before
C14_DecisionBeforeNarrative ==
  [][ /\ (submits' = submits + 1) =>
           LET e == Evaluate(formData)
           IN  /\ view' = "RESULT"
               /\ currentSubmission' # Null
               /\ currentSubmission'[1].data = formData
               /\ currentSubmission'[1].decision = e.decision
               /\ currentSubmission'[1].score = e.score
               /\ currentSubmission'[1].hardBlocker = e.hardBlocker
               /\ currentSubmission'[1].aiExplanation =
                    "Analyzing detailed constraints..."
               /\ pending' = Append(pending, currentSubmission'[1])
               /\ submissions' = submissions
      /\ \A r \in Results' :
           r.id \in PendingIds' =>
             r.aiExplanation = "Analyzing detailed constraints..."
      /\ \A r \in Results' :
           r.aiExplanation # "Analyzing detailed constraints..." =>
             \/ r \in Results
             \/ \E i \in DOMAIN pending :
                  /\ pending[i].id = r.id
                  /\ pending[i].id \notin PendingIds'
                  /\ pending[i].aiExplanation =
                       "Analyzing detailed constraints..."
                  /\ pending[i].decision = r.decision
                  /\ pending[i].score = r.score
                  /\ pending[i].hardBlocker = r.hardBlocker
    ]_vars

\* a forced decision on the result page while its narrative call is still in
\* flight
C14_Witness ==
  /\ view = "RESULT"
  /\ pending # << >>
  /\ currentSubmission = Some(pending[Len(pending)])
  /\ currentSubmission[1].aiExplanation = "Analyzing detailed constraints..."
  /\ currentSubmission[1].hardBlocker # Undefined
  /\ currentSubmission[1].decision = LLM
  /\ \A i \in DOMAIN submissions : submissions[i].id # currentSubmission[1].id

\* C15: generateEvaluation resolves to a string whatever the API does and
\* never rejects: the key-missing message without an API key, the error
\* message when the API call throws, the no-text message when the API
\* returns empty text; every submission whose call has resolved carries one
\* of these strings or the generated text
C15_NarrativeNeverRaises ==
  /\ \A apiOutcome \in ApiOutcomes :
       LET text == generateEvaluation(env.apiKey, apiOutcome)
       IN  /\ text # Rejected
           /\ ~env.apiKey =>
                text = "API Key is missing. Unable to generate AI explanation."
           /\ (env.apiKey /\ apiOutcome = "error") =>
                text = "Unable to generate AI explanation due to a network or API error."
           /\ (env.apiKey /\ apiOutcome = "empty") =>
                text = "Analysis generated, but no text returned."
           /\ (env.apiKey /\ apiOutcome = "text") =>
                text = "generated narrative"
  /\ \A r \in Results :
       r.id \notin PendingIds =>
         /\ r.aiExplanation # Rejected
         /\ r.aiExplanation \in
              {"API Key is missing. Unable to generate AI explanation.",
               "Unable to generate AI explanation due to a network or API error.",
               "Analysis generated, but no text returned.",
               "generated narrative"}
         /\ ~env.apiKey =>
              r.aiExplanation =
                "API Key is missing. Unable to generate AI explanation."

\* the API call failed with a key configured: the submission is listed with
\* the error message as its explanation
C15_Witness ==
  /\ env.apiKey
  /\ pending = << >>
  /\ currentSubmission # Null
  /\ currentSubmission[1].aiExplanation =
       "Unable to generate AI explanation due to a network or API error."
  /\ submissions # << >>
  /\ submissions[1] = currentSubmission[1]

\* C16: when no store is configured, or the store reports an error,
\* saveSubmission resolves to false and fetchSubmissions to the empty list,
\* neither rejects, and the table is left as it was; without a configured
\* store the table is never touched, and any change of the table is one row
\* appended by a configured store for the submission just completed
C16_StoreDegrades ==
  [][ /\ \A error \in BOOLEAN :
           (~env.supabase \/ error) =>
             /\ saveSubmissionReturns(env.supabase, error) = FALSE
             /\ fetchSubmissions(env.supabase, table, error) # Rejected
             /\ fetchSubmissions(env.supabase, table, error) = << >>
             /\ \A r \in Results :
                  saveSubmission(env.supabase, table, error, r) = table
      /\ ~env.supabase => (table = << >> /\ table' = << >>)
      /\ table' # table =>
           /\ env.supabase
           /\ currentSubmission' # Null
           /\ table' = Append(table, SubmissionRow(currentSubmission'[1]))
    ]_vars

\* a configured store refused the insert: the submission is completed and
\* listed while the table still holds the earlier rows only
C16_Witness ==
  /\ env.supabase
  /\ pending = << >>
  /\ submits > 0
  /\ \E i \in DOMAIN submissions : submissions[i].id = TempIds[1]
  /\ table = EarlierRows

C18_SaveNeverGates ==
  [][ /\ PendingIds' # PendingIds /\ submits' = submits =>
           \E i \in DOMAIN pending :
             /\ pending[i].id \notin PendingIds'
             /\ currentSubmission' # Null
             /\ currentSubmission'[1].id = pending[i].id
             /\ currentSubmission'[1].decision = pending[i].decision
             /\ currentSubmission'[1].score = pending[i].score
             /\ currentSubmission'[1].hardBlocker = pending[i].hardBlocker
             /\ submissions' = << currentSubmission'[1] >> \o submissions
             /\ table' \in {table, Append(table,
                                     SubmissionRow(currentSubmission'[1]))}
             /\ ~env.supabase => table' = table
      /\ table' # table =>
           /\ currentSubmission' # Null
           /\ table'[Len(table')] = SubmissionRow(currentSubmission'[1])
           /\ submissions' # << >>
           /\ submissions'[1] = currentSubmission'[1]
           /\ currentSubmission'[1].id \notin PendingIds'
    ]_vars

\* no store is configured and nothing was saved, yet a forced LLM decision
\* is shown and listed with its score
C18_Witness ==
  /\ ~env.supabase
  /\ table = << >>
  /\ pending = << >>
  /\ currentSubmission # Null
  /\ currentSubmission[1].id \in SessionIds
  /\ currentSubmission[1].decision = LLM
  /\ currentSubmission[1].hardBlocker # Undefined
  /\ currentSubmission[1].score = MAX_POSSIBLE_SCORE
  /\ submissions[1] = currentSubmission[1]

\* C19: a Likert response outside 1..5 is neither clamped nor rejected: it
\* contributes response * weight, or (6 - response) * weight for a reverse
\* question, to the reported score, and without a hard blocker that score
\* decides through the threshold comparison even outside 0..maxScore
C19_NoClamping ==
  LET term(r, i) ==
        LET q == SCORED_QUESTIONS[i]
        IN  IF q.reverse THEN (6 - r.data[q.id]) * q.weight
            ELSE r.data[q.id] * q.weight
      total(r) ==
        term(r, 1) + term(r, 2) + term(r, 3) + term(r, 4) + term(r, 5)
          + term(r, 6) + term(r, 7) + term(r, 8) + term(r, 9) + term(r, 10)
          + term(r, 11) + term(r, 12) + term(r, 13) + term(r, 14)
  IN  \A r \in Results :
        (\E q \in ScoredIds : r.data[q] \notin 1..5) =>
          /\ Len(SCORED_QUESTIONS) = 14
          /\ r.score = total(r)
          /\ r.hardBlocker = Undefined =>
               r.decision = IF r.score >= SCORING_THRESHOLD THEN SLM ELSE LLM

\* responses 7 and 0 submitted without a gatekeeper: the score, 274, is
\* above maxScore and decides SLM
C19_Witness ==
  \E r \in Results :
    /\ r.data["s1_latency"] = 7 /\ r.data["s12_breadth"] = 0
    /\ r.hardBlocker = Undefined
    /\ r.score = 274
    /\ r.score > r.maxScore
    /\ r.decision = SLM

\* C20: the submission that a resolving narrative call stores in
\* currentSubmission and at the head of the list has the id, user,
\* timestamp, data, score, maxScore, decision and hardBlocker of the
\* submission published at submit for that call; it has no other fields
\* than these and aiExplanation
C20_OnlyExplanationChanges ==
  [][ /\ submits' = submits + 1 =>
           /\ currentSubmission' # Null
           /\ pending' = Append(pending, currentSubmission'[1])
      /\ PendingIds' # PendingIds /\ submits' = submits =>
           \E i \in DOMAIN pending :
             LET published == pending[i]
             IN  /\ published.id \notin PendingIds'
                 /\ currentSubmission' # Null
                 /\ submissions' # << >>
                 /\ submissions'[1] = currentSubmission'[1]
                 /\ LET final == currentSubmission'[1]
                    IN  /\ DOMAIN final = DOMAIN published
                        /\ \A f \in DOMAIN published \ {"aiExplanation"} :
                             final[f] = published[f]
                        /\ DOMAIN published =
                             {"id", "user", "timestamp", "data", "score",
                              "maxScore", "decision", "hardBlocker",
                              "aiExplanation"}
    ]_vars

\* a completed submission, shown and listed: the object built at submit with
\* the generated text in place of the placeholder
C20_Witness ==
  /\ currentSubmission # Null
  /\ submissions # << >>
  /\ submissions[1] = currentSubmission[1]
  /\ LET final == currentSubmission[1]
     IN  /\ final.id \in SessionIds
         /\ final.id \notin PendingIds
         /\ final.aiExplanation = "generated narrative"
         /\ final = [NewSubmission(final.data, final.id, final.timestamp)
                       EXCEPT !.aiExplanation = "generated narrative"]
         /\ final.timestamp < clock

\* the positions of the list, and of the table, that hold a given id
ListedAt(id) == {i \in DOMAIN submissions : submissions[i].id = id}

SavedAt(id) == {i \in DOMAIN table : table[i].id = id}

\* C21: provided the narrative calls resolve, every accepted submit leads to
\* a state where its submission is in the list exactly once, carrying the
\* generated text or one of the fallback strings; a submission is never
\* listed twice, the store holds at most one row for it, and once it is
\* listed its rows no longer change (a failed save is not retried)
C21_ReachesHistory ==
  /\ \A k \in 1..MaxSubmits :
       (submits >= k) ~>
         ( /\ Cardinality(ListedAt(TempIds[k])) = 1
           /\ \A i \in ListedAt(TempIds[k]) :
                submissions[i].aiExplanation \in
                  {"API Key is missing. Unable to generate AI explanation.",
                   "Unable to generate AI explanation due to a network or API error.",
                   "Analysis generated, but no text returned.",
                   "generated narrative"} )
  /\ [][ \A k \in 1..MaxSubmits :
           /\ Cardinality(ListedAt(TempIds[k])') <= 1
           /\ Cardinality(SavedAt(TempIds[k])') <= 1
           /\ ListedAt(TempIds[k]) # {} =>
                SavedAt(TempIds[k])' = SavedAt(TempIds[k])
       ]_vars

\* the API call failed and the store refused the row: the submission is
\* listed once with the error fallback and has no row
C21_Witness ==
  /\ env.apiKey /\ env.supabase
  /\ pending = << >>
  /\ Cardinality(ListedAt(TempIds[1])) = 1
  /\ SavedAt(TempIds[1]) = {}
  /\ \A i \in ListedAt(TempIds[1]) :
       submissions[i].aiExplanation =
         "Unable to generate AI explanation due to a network or API error."

\* C22: the submission on display is always the one of the latest submit: a
\* narrative that resolves for an earlier submit never replaces it, so once
\* all calls have resolved currentSubmission is the later-submitted
\* assessment whatever the order of resolution
C22_NewestStaysDisplayed ==
  currentSubmission # Null =>
    /\ submits >= 1
    /\ currentSubmission[1].id = TempIds[submits]

\* C23: once the initial load has completed, the submissions list is ordered
\* newest first: timestamps never increase along the list, for fetched rows,
\* for the mock fallback and after submits whose calls resolve in any order
C23_NewestFirst ==
  ~isLoading =>
    \A i \in DOMAIN submissions, j \in DOMAIN submissions :
      i < j => submissions[i].timestamp >= submissions[j].timestamp

\* C24: every entry of the list that did not come from the store -- the
\* mock fallback entries and the entries created in the session -- carries
\* the score, decision and hardBlocker the engine computes for its own
\* answer data, and MAX_POSSIBLE_SCORE as maxScore
C24_ListConsistentWithEngine ==
  LET mockIds == {MOCK_SUBMISSIONS[i].id : i \in DOMAIN MOCK_SUBMISSIONS}
  IN  \A i \in DOMAIN submissions :
        submissions[i].id \in mockIds \cup SessionIds =>
          LET e == Evaluate(submissions[i].data)
          IN  /\ submissions[i].score = e.score
              /\ submissions[i].decision = e.decision
              /\ submissions[i].hardBlocker = e.hardBlocker
              /\ submissions[i].maxScore = MAX_POSSIBLE_SCORE

\* C25: with every Likert response in 1..5 the score is at least the sum of
\* all weights, 52, and at most maxScore, 260; the answers "1, reverse 5"
\* score exactly the sum of the weights and the answers "5, reverse 1"
\* exactly maxScore
C25_ScoreFloor ==
  LET w(i) == SCORED_QUESTIONS[i].weight
      totalWeight ==
        w(1) + w(2) + w(3) + w(4) + w(5) + w(6) + w(7) + w(8) + w(9) + w(10)
          + w(11) + w(12) + w(13) + w(14)
  IN  \A r \in Results :
        (\A q \in ScoredIds : r.data[q] \in 1..5) =>
          /\ Len(SCORED_QUESTIONS) = 14
          /\ totalWeight = 52
          /\ r.score >= totalWeight
          /\ r.score <= r.maxScore
          /\ r.maxScore = 260
          /\ (\A q \in ScoredIds :
                r.data[q] = IF q \in ReverseIds THEN 5 ELSE 1)
               => r.score = totalWeight
          /\ (\A q \in ScoredIds :
                r.data[q] = IF q \in ReverseIds THEN 1 ELSE 5)
               => r.score = r.maxScore

\* the lower bound attained by a submission that a gatekeeper decided
C25_Witness ==
  \E r \in Results :
    /\ \A q \in ScoredIds : r.data[q] \in 1..5
    /\ r.score = 52
    /\ r.data["g7_timeToMarket"]
    /\ r.hardBlocker # Undefined

\* C26: while the initial load is pending nothing is submitted, in flight or
\* listed for the session, and the load runs only before the first submit;
\* every session-created submission that is in the list is in the list,
\* unchanged, after every later step
C26_LoadNeverDiscards ==
  [][ /\ isLoading =>
           /\ submits = 0 /\ submits' = 0
           /\ pending' = << >>
           /\ \A k \in 1..MaxSubmits : ListedAt(TempIds[k])' = {}
      /\ \A i \in DOMAIN submissions :
           submissions[i].id \in SessionIds =>
             \E j \in DOMAIN submissions' : submissions'[j] = submissions[i]
    ]_vars

\* a session submission on top of the rows fetched from the store
C26_Witness ==
  /\ ~isLoading
  /\ env.supabase
  /\ Len(submissions) = 3
  /\ submissions[1].id = TempIds[1]
  /\ submissions[2].id = "f5g6h7i8j"
  /\ submissions[3].id = "e1a2b3c4d"

\* C27: a form submit with userName, projectName or projectDescription empty
\* ends in the alert and nothing else: no submission is built, no narrative
\* call starts, the store is not touched, and view, currentSubmission and
\* submissions stay; no submit is accepted with one of the three empty, and
\* an accepted submit runs the engine once, building exactly one submission
\* from the form's data
C27_CallerValidates ==
  [][ /\ alerts' # alerts =>
           /\ \/ formData["userName"] = ""
              \/ formData["projectName"] = ""
              \/ formData["projectDescription"] = ""
           /\ UNCHANGED <<view, currentSubmission, submissions, pending,
                          table, submits, clock, formData>>
      /\ submits' # submits =>
           /\ formData["userName"] # ""
           /\ formData["projectName"] # ""
           /\ formData["projectDescription"] # ""
           /\ submits' = submits + 1
           /\ alerts' = alerts
           /\ Len(pending') = Len(pending) + 1
           /\ currentSubmission' # Null
           /\ currentSubmission'[1].data = formData
           /\ currentSubmission'[1].score = weightedScore(formData)
      /\ ( \/ formData["userName"] = ""
           \/ formData["projectName"] = ""
           \/ formData["projectDescription"] = "" ) =>
           /\ submits' = submits
           /\ pending' \in {pending} \cup
                {RemoveAt(pending, i) : i \in DOMAIN pending}
    ]_vars

\* a submit of the half-filled form was rejected: the alert has been shown
\* and the visitor is still on the form with nothing published
C27_Witness ==
  /\ alerts = 1
  /\ submits = 0
  /\ view = "ASSESSMENT"
  /\ currentSubmission = Null
  /\ pending = << >>
  /\ formData["userName"] = "x"
  /\ formData["projectName"] = "x"
  /\ formData["projectDescription"] = ""

\* C28: when saveSubmission has stored a submission, fetchSubmissions on the
\* resulting table returns for its id exactly one submission, with the same
\* id, user, timestamp, data, score, decision, aiExplanation and hardBlocker
\* (an absent hardBlocker comes back absent) and maxScore MAX_POSSIBLE_SCORE
C28_StoreRoundTrip ==
  [][ table' # table =>
        /\ currentSubmission' # Null
        /\ LET saved == currentSubmission'[1]
               fetched == fetchSubmissions_part001(env.supabase, table', FALSE)
               hits == {i \in DOMAIN fetched : fetched[i].id = saved.id}
           IN  /\ Cardinality(hits) = 1
               /\ \A i \in hits :
                    /\ fetched[i].id = saved.id
                    /\ fetched[i].user = saved.user
                    /\ fetched[i].timestamp = saved.timestamp
                    /\ fetched[i].data = saved.data
                    /\ fetched[i].score = saved.score
                    /\ fetched[i].decision = saved.decision
                    /\ fetched[i].aiExplanation = saved.aiExplanation
                    /\ fetched[i].hardBlocker = saved.hardBlocker
                    /\ fetched[i].maxScore = MAX_POSSIBLE_SCORE
    ]_vars

\* a submission decided by a hard blocker has been stored with its generated
\* narrative and the table hands it back
C28_Witness ==
  /\ Len(table) = 1
  /\ currentSubmission # Null
  /\ currentSubmission[1].hardBlocker # Undefined
  /\ currentSubmission[1].aiExplanation = "generated narrative"
  /\ fetchSubmissions_part001(TRUE, table, FALSE) = << currentSubmission[1] >>


\* C29: the dashboard is shown only to an administrator, in every state and
\* after every step; isAdmin turns true only in a step taken on the login page
\* with the correct password typed; a login attempt that raises the error flag
\* was made with another password and leaves view and isAdmin as they were; and
\* a step that starts and ends without administrator rights never ends on the
\* dashboard, whichever navbar control was used.
C29_AdminOnlyAfterLogin ==
  [][ /\ (view = "ADMIN" => isAdmin)
      /\ (view' = "ADMIN" => isAdmin')
      /\ (~isAdmin /\ isAdmin' =>
            /\ view = "LOGIN"
            /\ password = "$Infovision2026$"
            /\ view' = "ADMIN")
      /\ (view = "LOGIN" /\ password # "$Infovision2026$" => isAdmin' = isAdmin)
      /\ (~loginError /\ loginError' =>
            /\ password # "$Infovision2026$"
            /\ view' = view
            /\ isAdmin' = isAdmin)
      /\ (~isAdmin /\ ~isAdmin' => view' # "ADMIN") ]_vars

\* C29: an administrator on the dashboard, after an accepted login that
\* followed an assessment
C29_Witness ==
  view = "ADMIN" /\ isAdmin /\ submits > 0

\* C30: every maximum score and threshold shown outside the engine is the
\* engine's: the score line of the prompt built for a submission awaiting its
\* narrative names MAX_POSSIBLE_SCORE and SCORING_THRESHOLD, and so does the
\* threshold label under the score bar of a displayed result.
C30_ReportedLimitsAreTheEngines ==
  /\ \A i \in DOMAIN pending :
       LET outcomeLine == PromptOutcomeLine(pending[i].score,
                                            pending[i].hardBlocker)
       IN  env.apiKey /\ outcomeLine.line = "Score" =>
             /\ outcomeLine.denominator = MAX_POSSIBLE_SCORE
             /\ outcomeLine.threshold = SCORING_THRESHOLD
  /\ (view = "RESULT" /\ currentSubmission # Null =>
        ResultThresholdLabel = SCORING_THRESHOLD)

====
